---- MODULE Spec2Model ----
(***************************************************************************)
(* Model of yt-tools: the video filter and duration formatter of           *)
(* download.py, the download and transcribe subcommands of cli.py, and the *)
(* JSON normalizer and the spinner of transcribe.py.                       *)
(*                                                                         *)
(* Python strings are sequences of one-character strings, so that lower(), *)
(* substring tests, endswith(), float() and the {:02d} formatting are      *)
(* computed the way the code computes them.  A non-negative float with one *)
(* decimal is the record [whole |-> n, tenths |-> t].                      *)
(***************************************************************************)
EXTENDS Integers, Sequences, FiniteSets, TLC

(* ------------------------------ bounds --------------------------------- *)
\* longest list of video entries handed to filter_videos / listed by yt-dlp
MaxVideos == 2
\* objects on the heap handed to to_jsonable, and elements of one list
MaxNodes == 2
MaxItems == 2
\* depth of to_jsonable calls at which the interpreter raises RecursionError
\* (sys.getrecursionlimit(), scaled down)
RecursionLimit == 4

(* ------------------------- strings (str methods) ------------------------ *)
UpperCase == <<"A","B","C","D","E","F","G","H","I","J","K","L","M",
               "N","O","P","Q","R","S","T","U","V","W","X","Y","Z">>
LowerCase == <<"a","b","c","d","e","f","g","h","i","j","k","l","m",
               "n","o","p","q","r","s","t","u","v","w","x","y","z">>

\* str.lower() on one character
LowerChar(c) ==
  IF \E i \in 1..Len(UpperCase) : UpperCase[i] = c
  THEN LowerCase[CHOOSE i \in 1..Len(UpperCase) : UpperCase[i] = c]
  ELSE c

\* str.lower()
Lower(s) == [i \in 1..Len(s) |-> LowerChar(s[i])]

\* str.startswith(p)
StartsWith(s, p) == Len(p) <= Len(s) /\ SubSeq(s, 1, Len(p)) = p

\* str.endswith(p)
EndsWith(s, p) ==
  Len(p) <= Len(s) /\ SubSeq(s, Len(s) - Len(p) + 1, Len(s)) = p

\* `sub in s`
Contains(s, sub) ==
  \E i \in 0..(Len(s) - Len(sub)) : SubSeq(s, i + 1, i + Len(sub)) = sub

(* --------------------------- numbers (float) ---------------------------- *)
DigitChars == <<"0","1","2","3","4","5","6","7","8","9">>

IsDigit(c) == \E i \in 1..Len(DigitChars) : DigitChars[i] = c

DigitVal(c) == (CHOOSE i \in 1..Len(DigitChars) : DigitChars[i] = c) - 1

RECURSIVE ParseDigits(_)
\* value of a non-empty string of decimal digits
ParseDigits(s) ==
  IF Len(s) = 0 THEN 0
  ELSE ParseDigits(SubSeq(s, 1, Len(s) - 1)) * Len(DigitChars) + DigitVal(s[Len(s)])

AllDigits(s) == Len(s) > 0 /\ \A i \in 1..Len(s) : IsDigit(s[i])

Zero == [whole |-> 0, tenths |-> 0]

\* float(text): ok = FALSE stands for ValueError.  Parsed here: "ddd" and
\* "ddd.d", the two shapes yt-dlp prints for %(duration)s; the other
\* spellings float() accepts (signs, exponents, nan, inf) occur in no entry
\* of VideoEntries.
ParseFloat(text) ==
  IF AllDigits(text)
  THEN [ok |-> TRUE, val |-> [whole |-> ParseDigits(text), tenths |-> 0]]
  ELSE IF Len(text) >= 3 /\ text[Len(text) - 1] = "."
          /\ AllDigits(SubSeq(text, 1, Len(text) - 2)) /\ IsDigit(text[Len(text)])
  THEN [ok |-> TRUE,
        val |-> [whole |-> ParseDigits(SubSeq(text, 1, Len(text) - 2)),
                 tenths |-> DigitVal(text[Len(text)])]]
  ELSE [ok |-> FALSE, val |-> Zero]

\* a <= b and a > b on floats
FloatLE(a, b) == a.whole < b.whole \/ (a.whole = b.whole /\ a.tenths <= b.tenths)
FloatGT(a, b) == ~FloatLE(a, b)

\* truthiness of a number: `if x`
Truthy(x) == x # Zero

\* int(x) for x >= 0: truncation
IntOf(x) == x.whole

(* ------------------------------ test data ------------------------------- *)
NA == <<"N","A">>
None == [whole |-> -1, tenths |-> 0]     \* the absent max_duration / -n
Sixty == [whole |-> 60, tenths |-> 0]

TitleFooBar == <<"F","o","o"," ","B","a","r">>
TitleClip == <<"c","l","i","p">>

VideoEntries ==
  { [id |-> "a", duration |-> <<"4","5">>,             title |-> TitleFooBar],
    [id |-> "b", duration |-> NA,                      title |-> TitleFooBar],
    [id |-> "c", duration |-> <<"5">>,                 title |-> TitleClip],
    [id |-> "d", duration |-> <<"6","0">>,             title |-> TitleClip],
    [id |-> "e", duration |-> <<"6","1",".","5">>,     title |-> TitleFooBar],
    [id |-> "f", duration |-> <<"a","b","c">>,         title |-> TitleClip],
    [id |-> "g", duration |-> <<"1","2","5",".","9">>, title |-> TitleClip],
    [id |-> "h", duration |-> <<"0">>,                 title |-> TitleFooBar] }

KeywordLists ==
  { <<>>,
    << <<"f","o","o">> >>,
    << <<"F","O","O">>, <<"b","a","r">> >>,
    << <<"c","l","i","p">>, <<"f","o","o">> >> }

VideoLists == UNION { [1..n -> VideoEntries] : n \in 0..MaxVideos }

FilterSpecs ==
  [keywords : KeywordLists, min_duration : {Zero, Sixty},
   max_duration : {None, Zero, Sixty}]

(* ----------------------------- download.py ------------------------------ *)
\* lines 12-15: the duration of an entry, 0 for "NA" and for a parse failure
EntryDuration(v) ==
  IF v.duration # NA
  THEN (IF ParseFloat(v.duration).ok THEN ParseFloat(v.duration).val ELSE Zero)
  ELSE Zero

\* Keeps with the minimum tested even when min_duration is 0
KeepsMinAlways(v, filters) ==
  /\ ~FloatLE(EntryDuration(v), filters.min_duration)
  /\ ~(filters.max_duration # None /\ Truthy(filters.max_duration)
        /\ FloatGT(EntryDuration(v), filters.max_duration))
  /\ (Len(filters.keywords) > 0 =>
        \A i \in 1..Len(filters.keywords) :
           Contains(Lower(v.title), Lower(filters.keywords[i])))

\* lines 17-30: does the loop body reach result.append(v)
Keeps(v, filters) ==
  /\ ~(Truthy(filters.min_duration)
        /\ FloatLE(EntryDuration(v), filters.min_duration))
  /\ ~(filters.max_duration # None /\ Truthy(filters.max_duration)
        /\ FloatGT(EntryDuration(v), filters.max_duration))
  /\ (Len(filters.keywords) > 0 =>
        \A i \in 1..Len(filters.keywords) :
           Contains(Lower(v.title), Lower(filters.keywords[i])))

RECURSIVE FilterVideosSkipFirst(_, _)
\* filter_videos whose loop starts at the second entry
FilterVideosSkipFirst(videos, filters) ==
  IF Len(videos) <= 1 THEN <<>>
  ELSE LET rest == FilterVideosSkipFirst(SubSeq(videos, 1, Len(videos) - 1), filters)
           v == videos[Len(videos)]
       IN IF Keeps(v, filters) THEN Append(rest, v) ELSE rest

RECURSIVE FilterVideos(_, _)
\* filter_videos: result.append(v) for each kept v, in input order
FilterVideos(videos, filters) ==
  IF Len(videos) = 0 THEN <<>>
  ELSE LET rest == FilterVideos(SubSeq(videos, 1, Len(videos) - 1), filters)
           v == videos[Len(videos)]
       IN IF Keeps(v, filters) THEN Append(rest, v) ELSE rest

RECURSIVE Digits(_)
\* the decimal digits of n >= 0, as the d format prints them
Digits(n) ==
  IF n < Len(DigitChars) THEN <<DigitChars[n + 1]>>
  ELSE Digits(n \div Len(DigitChars)) \o <<DigitChars[(n % Len(DigitChars)) + 1]>>

\* the format spec 02d: zero-padded to width 2, never cut
Pad2(s) == IF Len(s) < 2 THEN <<"0">> \o s ELSE s

\* format_duration with the seconds rounded to the nearest integer
FormatDurationRounded(seconds) ==
  LET n == IF seconds.tenths >= 5 THEN seconds.whole + 1 ELSE seconds.whole
  IN Pad2(Digits(n \div 60)) \o <<":">> \o Pad2(Digits(n % 60))

\* format_duration: divmod(int(seconds), 60), then "{mins:02d}:{secs:02d}"
FormatDuration(seconds) ==
  LET mins == IntOf(seconds) \div 60
      secs == IntOf(seconds) % 60
  IN Pad2(Digits(mins)) \o <<":">> \o Pad2(Digits(secs))

(* -------------------------------- cli.py -------------------------------- *)
\* lines 26-30: the filters cmd_download builds from its arguments
CmdFilters(a) ==
  [keywords |-> a.keywords,
   min_duration |-> IF a.shorts \/ a.only_shorts THEN Zero ELSE Sixty,
   max_duration |-> IF a.only_shorts THEN Sixty ELSE None]

\* videos[:n] of Python, n of either sign
SlicePrefix(s, n) ==
  IF n >= 0 THEN SubSeq(s, 1, IF n < Len(s) THEN n ELSE Len(s))
  ELSE SubSeq(s, 1, Len(s) + n)

\* the values of -n/--max: absent, or an int
MaxOptions ==
  {[set |-> FALSE, n |-> 0]} \cup [set : {TRUE}, n : -1..MaxVideos]

DownloadArgs ==
  [keywords : KeywordLists, shorts : BOOLEAN, only_shorts : BOOLEAN,
   max : MaxOptions, download : BOOLEAN]

VARIABLES videos, filters, result, again, fpc,
          listing, args, dvideos, dpc, di, printed, dexit, destdir, downloaded,
          seconds, formatted, mpc,
          source, ffmpeg, files, dirs, files0, dirs0, tpc, texit, wav_path,
          base_name, transcribed, stop_event, spc, frame, spinnerLast,
          heap, jroot, jout, jpc

filterVars == <<videos, filters, result, again, fpc>>
downloadVars == <<listing, args, dvideos, dpc, di, printed, dexit, destdir, downloaded>>
formatVars == <<seconds, formatted, mpc>>
transcribeVars == <<source, ffmpeg, files, dirs, files0, dirs0, tpc, texit,
                    wav_path, base_name, transcribed>>
spinnerVars == <<stop_event, spc, frame, spinnerLast>>
jsonVars == <<heap, jroot, jout, jpc>>
vars == <<filterVars, downloadVars, formatVars, transcribeVars, spinnerVars,
          jsonVars>>

notFilter == <<downloadVars, formatVars, transcribeVars, spinnerVars, jsonVars>>
notDownload == <<filterVars, formatVars, transcribeVars, spinnerVars, jsonVars>>
notFormat == <<filterVars, downloadVars, transcribeVars, spinnerVars, jsonVars>>
notTranscribe == <<filterVars, downloadVars, formatVars, jsonVars>>
notJson == <<filterVars, downloadVars, formatVars, transcribeVars, spinnerVars>>

(* ---- filter_videos applied to arbitrary lists and filter specs ---- *)
IdleFilter ==
  /\ videos = <<>>
  /\ filters = [keywords |-> <<>>, min_duration |-> Zero, max_duration |-> None]
  /\ result = <<>>
  /\ again = <<>>
  /\ fpc = "idle"

IdleDownload ==
  /\ listing = <<>>
  /\ args = [keywords |-> <<>>, shorts |-> FALSE, only_shorts |-> FALSE,
             max |-> [set |-> FALSE, n |-> 0], download |-> FALSE]
  /\ dvideos = <<>>
  /\ dpc = "idle"
  /\ di = 0
  /\ printed = <<>>
  /\ dexit = -1
  /\ destdir = FALSE
  /\ downloaded = <<>>

IdleFormat ==
  /\ seconds = Zero
  /\ formatted = <<>>
  /\ mpc = "idle"

IdleTranscribe ==
  /\ source = <<>>
  /\ ffmpeg = TRUE
  /\ files = {}
  /\ dirs = {}
  /\ files0 = {}
  /\ dirs0 = {}
  /\ tpc = "idle"
  /\ texit = -1
  /\ wav_path = <<>>
  /\ base_name = <<>>
  /\ transcribed = FALSE
  /\ stop_event = FALSE
  /\ spc = "unstarted"
  /\ frame = 0
  /\ spinnerLast = "none"

IdleJson ==
  /\ heap = <<>>
  /\ jroot = 0
  /\ jout = [raised |-> FALSE, val |-> [t |-> "null", items |-> <<>>]]
  /\ jpc = "idle"

InitFilter ==
  /\ videos \in VideoLists
  /\ filters \in FilterSpecs
  /\ result = <<>>
  /\ again = <<>>
  /\ fpc = "start"
  /\ IdleDownload /\ IdleFormat /\ IdleTranscribe /\ IdleJson

\* result = filter_videos(videos, filters)
CallFilter ==
  /\ fpc = "start"
  /\ result' = FilterVideos(videos, filters)
  /\ fpc' = "filtered"
  /\ UNCHANGED <<videos, filters, again, notFilter>>

\* again = filter_videos(result, filters)
CallFilterAgain ==
  /\ fpc = "filtered"
  /\ again' = FilterVideos(result, filters)
  /\ fpc' = "refiltered"
  /\ UNCHANGED <<videos, filters, result, notFilter>>

NextFilter == CallFilter \/ CallFilterAgain

SpecFilter == InitFilter /\ [][NextFilter]_vars

(* ---- cmd_download ---- *)
InitDownload ==
  /\ listing \in VideoLists          \* what list_videos returns
  /\ args \in DownloadArgs
  /\ dvideos = <<>>
  /\ dpc = "start"
  /\ di = 0
  /\ printed = <<>>
  /\ dexit = -1
  /\ destdir = FALSE
  /\ downloaded = <<>>
  /\ IdleFilter /\ IdleFormat /\ IdleTranscribe /\ IdleJson

\* lines 26-34: videos = filter_videos(list_videos(url), filters)
CmdDownloadFilter ==
  /\ dpc = "start"
  /\ dvideos' = FilterVideos(listing, CmdFilters(args))
  /\ dpc' = "truncate"
  /\ UNCHANGED <<listing, args, di, printed, dexit, destdir, downloaded,
                 notDownload>>

\* lines 36-37: if args.max: videos = videos[:args.max]
CmdDownloadTruncate ==
  /\ dpc = "truncate"
  /\ dvideos' = IF args.max.set /\ args.max.n # 0
                THEN SlicePrefix(dvideos, args.max.n) ELSE dvideos
  /\ dpc' = "check"
  /\ UNCHANGED <<listing, args, di, printed, dexit, destdir, downloaded,
                 notDownload>>

\* lines 39-41: if not videos: return 1
CmdDownloadNoMatch ==
  /\ dpc = "check"
  /\ dvideos = <<>>
  /\ dexit' = 1
  /\ dpc' = "returned"
  /\ UNCHANGED <<listing, args, dvideos, di, printed, destdir, downloaded,
                 notDownload>>

\* line 43: the header, then the loop of line 44 starts
CmdDownloadFound ==
  /\ dpc = "check"
  /\ dvideos # <<>>
  /\ di' = 1
  /\ dpc' = "list"
  /\ UNCHANGED <<listing, args, dvideos, printed, dexit, destdir, downloaded,
                 notDownload>>

\* lines 44-46, one iteration: float() is outside any try, a ValueError
\* leaves cmd_download
CmdDownloadPrint ==
  /\ dpc = "list"
  /\ di <= Len(dvideos)
  /\ LET v == dvideos[di]
         p == ParseFloat(v.duration)
     IN IF v.duration # NA /\ ~p.ok
        THEN /\ dpc' = "raised"
             /\ UNCHANGED <<di, printed>>
        ELSE /\ printed' = Append(printed,
                    FormatDuration(IF v.duration # NA THEN p.val ELSE Zero))
             /\ di' = di + 1
             /\ dpc' = "list"
  /\ UNCHANGED <<listing, args, dvideos, dexit, destdir, downloaded,
                 notDownload>>

\* lines 48-52 with download_videos (download.py 53-74): mkdir, one yt-dlp
\* run per video, return 0
CmdDownloadFinish ==
  /\ dpc = "list"
  /\ di > Len(dvideos)
  /\ IF args.download
     THEN /\ destdir' = TRUE
          /\ downloaded' = [i \in 1..Len(dvideos) |-> dvideos[i].id]
     ELSE UNCHANGED <<destdir, downloaded>>
  /\ dexit' = 0
  /\ dpc' = "returned"
  /\ UNCHANGED <<listing, args, dvideos, di, printed, notDownload>>

NextDownload ==
  \/ CmdDownloadFilter
  \/ CmdDownloadTruncate
  \/ CmdDownloadNoMatch
  \/ CmdDownloadFound
  \/ CmdDownloadPrint
  \/ CmdDownloadFinish

SpecDownload == InitDownload /\ [][NextDownload]_vars

(* ---- format_duration applied to arbitrary durations ---- *)
\* whole seconds around the minute, ten-minute and hundred-minute borders
WholeSeconds ==
  { m * 60 + s : m \in {0, 1, 2, 9, 10, 59, 99, 100, 101, 1000},
                 s \in {0, 1, 5, 9, 10, 59} }

Durations == [whole : WholeSeconds, tenths : {0, 4, 5, 9}]

InitFormat ==
  /\ seconds \in Durations
  /\ formatted = <<>>
  /\ mpc = "start"
  /\ IdleFilter /\ IdleDownload /\ IdleTranscribe /\ IdleJson

\* formatted = format_duration(seconds)
CallFormat ==
  /\ mpc = "start"
  /\ formatted' = FormatDuration(seconds)
  /\ mpc' = "done"
  /\ UNCHANGED <<seconds, notFormat>>

NextFormat == CallFormat

SpecFormat == InitFormat /\ [][NextFormat]_vars

(* ---- cmd_transcribe, with the Spinner thread of transcribe.py ---- *)
HttpPrefix == <<"h","t","t","p",":","/","/">>
HttpsPrefix == <<"h","t","t","p","s",":","/","/">>
DotWav == <<".","w","a","v">>
DotTxt == <<".","t","x","t">>
DotJson == <<".","j","s","o","n">>

\* args.outdir
OutDir == <<"o">>

LocalSources ==
  { <<"n",".","m","p","3">>,
    <<"t",".","w","a","v">>,
    <<"T",".","W","A","V">>,
    <<"t","w","a","v">>,
    <<"o","/","t",".","w","a","v">> }

UrlSources == { HttpPrefix \o <<"u">>, HttpsPrefix \o <<"u">> }

\* what yt-dlp leaves in the output directory for a URL: <outdir>/v.wav
DownloadedBase == <<"v">>

\* line 61
IsUrl(s) == StartsWith(s, HttpPrefix) \/ StartsWith(s, HttpsPrefix)

\* line 70 without the dot: endswith("wav")
IsWavNoDot(s) == EndsWith(Lower(s), <<"w","a","v">>)

\* line 70: source.lower().endswith(".wav")
IsWav(s) == EndsWith(Lower(s), DotWav)

\* position of the last occurrence of c in s, 0 if none
LastIndex(s, c) ==
  IF \E i \in 1..Len(s) : s[i] = c
  THEN CHOOSE i \in 1..Len(s) : s[i] = c /\ \A j \in (i + 1)..Len(s) : s[j] # c
  ELSE 0

\* os.path.basename
BaseName(s) == SubSeq(s, LastIndex(s, "/") + 1, Len(s))

\* os.path.splitext(...)[0]: cut at the last dot, unless it leads the name
SplitExtRoot(s) ==
  LET b == BaseName(s)
      d == LastIndex(b, ".")
  IN IF d > 1 THEN SubSeq(s, 1, Len(s) - (Len(b) - d + 1)) ELSE s

\* os.path.join(dir, name)
PathJoin(d, n) == d \o <<"/">> \o n

\* thread.join() with the join left out: returns at once
JoinReturnsAtOnce == TRUE

\* line 203: thread.join() returns once _run has finished
JoinReturns == spc = "dead"

InitTranscribe ==
  /\ source \in LocalSources \cup UrlSources
  /\ ffmpeg \in BOOLEAN
  /\ files \in SUBSET LocalSources
  /\ dirs \in SUBSET {OutDir}
  /\ (PathJoin(OutDir, <<"t",".","w","a","v">>) \in files => OutDir \in dirs)
  /\ files0 = files
  /\ dirs0 = dirs
  /\ tpc = "start"
  /\ texit = -1
  /\ wav_path = <<>>
  /\ base_name = <<>>
  /\ transcribed = FALSE
  /\ stop_event = FALSE
  /\ spc = "unstarted"
  /\ frame = 0
  /\ spinnerLast = "none"
  /\ IdleFilter /\ IdleDownload /\ IdleFormat /\ IdleJson

\* cli.py 63-65 into transcribe.py 26-35: ensure_ffmpeg_available exits
FfmpegMissing ==
  /\ tpc = "start"
  /\ IsUrl(source)
  /\ ~ffmpeg
  /\ texit' = 1
  /\ tpc' = "sysexit"
  /\ UNCHANGED <<source, ffmpeg, files, dirs, files0, dirs0, wav_path,
                 base_name, transcribed, spinnerVars, notTranscribe>>

\* transcribe.py 46-106: makedirs, then yt-dlp extracts the audio
DownloadAudio ==
  /\ tpc = "start"
  /\ IsUrl(source)
  /\ ffmpeg
  /\ dirs' = dirs \cup {OutDir}
  /\ files' = files \cup {PathJoin(OutDir, DownloadedBase \o DotWav)}
  /\ wav_path' = PathJoin(OutDir, DownloadedBase \o DotWav)
  /\ base_name' = DownloadedBase
  /\ tpc' = "enter"
  /\ UNCHANGED <<source, ffmpeg, files0, dirs0, texit, transcribed,
                 spinnerVars, notTranscribe>>

\* transcribe.py 99-100: the download raises, nothing catches it
DownloadAudioFails ==
  /\ tpc = "start"
  /\ IsUrl(source)
  /\ ffmpeg
  /\ dirs' = dirs \cup {OutDir}
  /\ tpc' = "dl_raised"
  /\ UNCHANGED <<source, ffmpeg, files, files0, dirs0, texit, wav_path,
                 base_name, transcribed, spinnerVars, notTranscribe>>

\* cli.py 67-69
SourceNotFound ==
  /\ tpc = "start"
  /\ ~IsUrl(source)
  /\ source \notin files
  /\ texit' = 1
  /\ tpc' = "return1"
  /\ UNCHANGED <<source, ffmpeg, files, dirs, files0, dirs0, wav_path,
                 base_name, transcribed, spinnerVars, notTranscribe>>

\* cli.py 70-76
SourceNotWav ==
  /\ tpc = "start"
  /\ ~IsUrl(source)
  /\ source \in files
  /\ ~IsWav(source)
  /\ texit' = 1
  /\ tpc' = "return1"
  /\ UNCHANGED <<source, ffmpeg, files, dirs, files0, dirs0, wav_path,
                 base_name, transcribed, spinnerVars, notTranscribe>>

\* cli.py 77-82
CopyLocalWav ==
  /\ tpc = "start"
  /\ ~IsUrl(source)
  /\ source \in files
  /\ IsWav(source)
  /\ LET base == SplitExtRoot(BaseName(source))
         dest == PathJoin(OutDir, base \o DotWav)
     IN /\ dirs' = dirs \cup {OutDir}
        /\ base_name' = base
        /\ files' = IF source # dest THEN files \cup {dest} ELSE files
        /\ wav_path' = dest
  /\ tpc' = "enter"
  /\ UNCHANGED <<source, ffmpeg, files0, dirs0, texit, transcribed,
                 spinnerVars, notTranscribe>>

\* Spinner.__enter__, transcribe.py 195-198
SpinnerEnter ==
  /\ tpc = "enter"
  /\ spc' = "check"
  /\ tpc' = "body"
  /\ UNCHANGED <<source, ffmpeg, files, dirs, files0, dirs0, texit, wav_path,
                 base_name, transcribed, stop_event, frame, spinnerLast,
                 notTranscribe>>

\* cli.py 85-90: transcribe_audio is called
TranscribeBegin ==
  /\ tpc = "body"
  /\ transcribed' = TRUE
  /\ tpc' = "transcribing"
  /\ UNCHANGED <<source, ffmpeg, files, dirs, files0, dirs0, texit, wav_path,
                 base_name, spinnerVars, notTranscribe>>

\* transcribe_audio returns a result, or raises out of the with block
TranscribeEnd ==
  /\ tpc = "transcribing"
  /\ tpc' \in {"exit_ok", "exit_exc"}
  /\ UNCHANGED <<source, ffmpeg, files, dirs, files0, dirs0, texit, wav_path,
                 base_name, transcribed, spinnerVars, notTranscribe>>

\* Spinner.__exit__, line 201
SpinnerExitSet ==
  /\ tpc \in {"exit_ok", "exit_exc"}
  /\ stop_event' = TRUE
  /\ tpc' = IF tpc = "exit_ok" THEN "join_ok" ELSE "join_exc"
  /\ UNCHANGED <<source, ffmpeg, files, dirs, files0, dirs0, texit, wav_path,
                 base_name, transcribed, spc, frame, spinnerLast,
                 notTranscribe>>

\* Spinner.__exit__, lines 202-203, then the with block is left
SpinnerExitJoin ==
  /\ tpc \in {"join_ok", "join_exc"}
  /\ JoinReturns
  /\ tpc' = IF tpc = "join_ok" THEN "write_text" ELSE "tr_raised"
  /\ UNCHANGED <<source, ffmpeg, files, dirs, files0, dirs0, texit, wav_path,
                 base_name, transcribed, spinnerVars, notTranscribe>>

\* transcribe.py 135-139
WriteText ==
  /\ tpc = "write_text"
  /\ files' = files \cup {PathJoin(OutDir, base_name \o DotTxt)}
  /\ tpc' = "write_json"
  /\ UNCHANGED <<source, ffmpeg, dirs, files0, dirs0, texit, wav_path,
                 base_name, transcribed, spinnerVars, notTranscribe>>

\* transcribe.py 141-144 and cli.py 94-96
WriteJson ==
  /\ tpc = "write_json"
  /\ files' = files \cup {PathJoin(OutDir, base_name \o DotJson)}
  /\ texit' = 0
  /\ tpc' = "return0"
  /\ UNCHANGED <<source, ffmpeg, dirs, files0, dirs0, wav_path,
                 base_name, transcribed, spinnerVars, notTranscribe>>

\* transcribe.py 141-142: to_jsonable or json.dump raises on the result;
\* open(json_path, "w") has already created the file
WriteJsonFails ==
  /\ tpc = "write_json"
  /\ files' = files \cup {PathJoin(OutDir, base_name \o DotJson)}
  /\ tpc' = "json_raised"
  /\ UNCHANGED <<source, ffmpeg, dirs, files0, dirs0, texit, wav_path,
                 base_name, transcribed, spinnerVars, notTranscribe>>

\* Spinner._run, line 189: the stop flag is polled
SpinnerPoll ==
  /\ spc = "check"
  /\ spc' = IF stop_event THEN "erase" ELSE "print"
  /\ UNCHANGED <<stop_event, frame, spinnerLast, transcribeVars, notTranscribe>>

\* Spinner._run, line 191: one frame is printed
SpinnerPrint ==
  /\ spc = "print"
  /\ spinnerLast' = "frame"
  /\ frame' = (frame + 1) % Len(<<"|", "/", "-", "\\">>)
  /\ spc' = "sleep"
  /\ UNCHANGED <<stop_event, transcribeVars, notTranscribe>>

\* Spinner._run, line 192: time.sleep(0.1) returns
SpinnerSleep ==
  /\ spc = "sleep"
  /\ spc' = "check"
  /\ UNCHANGED <<stop_event, frame, spinnerLast, transcribeVars, notTranscribe>>

\* Spinner._run, line 193: the line is erased and the thread ends
SpinnerErase ==
  /\ spc = "erase"
  /\ spinnerLast' = "erase"
  /\ spc' = "dead"
  /\ UNCHANGED <<stop_event, frame, transcribeVars, notTranscribe>>

SpinnerThread == SpinnerPoll \/ SpinnerPrint \/ SpinnerSleep \/ SpinnerErase

NextTranscribe ==
  \/ FfmpegMissing
  \/ DownloadAudio
  \/ DownloadAudioFails
  \/ SourceNotFound
  \/ SourceNotWav
  \/ CopyLocalWav
  \/ SpinnerEnter
  \/ TranscribeBegin
  \/ TranscribeEnd
  \/ SpinnerExitSet
  \/ SpinnerExitJoin
  \/ WriteText
  \/ WriteJson
  \/ WriteJsonFails
  \/ SpinnerPoll
  \/ SpinnerPrint
  \/ SpinnerSleep
  \/ SpinnerErase

SpecTranscribe == InitTranscribe /\ [][NextTranscribe]_vars

\* the spinner thread is scheduled: a step it can take is eventually taken
SpecTranscribeFair == SpecTranscribe /\ WF_vars(SpinnerThread)

(* ---- to_jsonable on a heap of objects ---- *)
\* A heap object is [kind, items]; items is a sequence of [key, ref], the
\* elements of a list (key unused) or the entries, fields or attributes of
\* a dict, dataclass or object.  References may form cycles.
LeafKinds == {"none", "int", "str", "npgeneric", "opaque"}
ContainerKinds == {"list", "dict", "dataclass", "todict", "object"}
Keys == {"x", "_p"}

JNull == [t |-> "null", items |-> <<>>]
JNum == [t |-> "num", items |-> <<>>]
JStr == [t |-> "str", items |-> <<>>]
Returned(v) == [raised |-> FALSE, val |-> v]
Raised == [raised |-> TRUE, val |-> JNull]

\* k.startswith("_")
IsPrivate(k) == k = "_p"

RECURSIVE ToJsonable(_, _, _), ConvertItems(_, _, _, _)

\* the comprehensions of lines 152, 154 and 173: every kept item converted
\* in order; an exception in one of them leaves the comprehension
ConvertItems(h, items, depth, skipPrivate) ==
  IF Len(items) = 0 THEN Returned(<<>>)
  ELSE LET it == items[Len(items)]
           front == ConvertItems(h, SubSeq(items, 1, Len(items) - 1), depth, skipPrivate)
       IN IF front.raised THEN Raised
          ELSE IF skipPrivate /\ IsPrivate(it.key) THEN front
          ELSE LET r == ToJsonable(h, it.ref, depth)
               IN IF r.raised THEN Raised
                  ELSE Returned(Append(front.val, [key |-> it.key, val |-> r.val]))

\* to_jsonable(obj) called at the given depth: the value returned, or
\* raised = TRUE for an exception leaving the call
ToJsonable(h, n, depth) ==
  IF depth > RecursionLimit THEN Raised
  ELSE LET o == h[n]
           asArr(r) == IF r.raised THEN Raised
                       ELSE Returned([t |-> "arr", items |-> r.val])
           asObj(r) == IF r.raised THEN Raised
                       ELSE Returned([t |-> "obj", items |-> r.val])
           \* lines 171-176: the attributes, or repr(obj) when that raises
           fromAttrs == LET r == ConvertItems(h, o.items, depth + 1, TRUE)
                        IN IF r.raised THEN Returned(JStr) ELSE asObj(r)
       IN CASE o.kind = "none" -> Returned(JNull)
            [] o.kind = "int" -> Returned(JNum)
            [] o.kind = "str" -> Returned(JStr)
            [] o.kind = "list" -> asArr(ConvertItems(h, o.items, depth + 1, FALSE))
            [] o.kind = "dict" -> asObj(ConvertItems(h, o.items, depth + 1, FALSE))
            \* line 156: asdict gives a dict, converted by a nested call
            [] o.kind = "dataclass" ->
                 IF depth + 1 > RecursionLimit THEN Raised
                 ELSE asObj(ConvertItems(h, o.items, depth + 2, FALSE))
            [] o.kind = "npgeneric" -> Returned(JNum)
            \* lines 165-170: to_dict() gives a dict of the attributes
            [] o.kind = "todict" ->
                 LET r == IF depth + 1 > RecursionLimit THEN Raised
                          ELSE ConvertItems(h, o.items, depth + 2, FALSE)
                 IN IF r.raised THEN fromAttrs ELSE asObj(r)
            [] o.kind = "object" -> fromAttrs
            [] OTHER -> Returned(JStr)

InitJson ==
  /\ heap = <<>>
  /\ jroot = 0
  /\ jout = Returned(JNull)
  /\ jpc = "build"
  /\ IdleFilter /\ IdleDownload /\ IdleFormat /\ IdleTranscribe

\* an object is created
Alloc ==
  /\ jpc = "build"
  /\ Len(heap) < MaxNodes
  /\ \E k \in LeafKinds \cup ContainerKinds :
       heap' = Append(heap, [kind |-> k, items |-> <<>>])
  /\ UNCHANGED <<jroot, jout, jpc, notJson>>

\* list.append(b)
AppendItem ==
  /\ jpc = "build"
  /\ \E a \in 1..Len(heap), b \in 1..Len(heap) :
       /\ heap[a].kind = "list"
       /\ Len(heap[a].items) < MaxItems
       /\ heap' = [heap EXCEPT ![a].items = Append(@, [key |-> "", ref |-> b])]
  /\ UNCHANGED <<jroot, jout, jpc, notJson>>

\* d[key] = b, or setattr(a, key, b)
SetItem ==
  /\ jpc = "build"
  /\ \E a \in 1..Len(heap), b \in 1..Len(heap), k \in Keys :
       /\ heap[a].kind \in ContainerKinds \ {"list"}
       /\ heap' = [heap EXCEPT ![a].items =
            IF \E i \in 1..Len(@) : @[i].key = k
            THEN [i \in 1..Len(@) |-> IF @[i].key = k THEN [key |-> k, ref |-> b] ELSE @[i]]
            ELSE Append(@, [key |-> k, ref |-> b])]
  /\ UNCHANGED <<jroot, jout, jpc, notJson>>

\* jout = to_jsonable(heap[n])
CallToJsonable ==
  /\ jpc = "build"
  /\ \E n \in 1..Len(heap) :
       /\ jroot' = n
       /\ jout' = ToJsonable(heap, n, 1)
  /\ jpc' = "done"
  /\ UNCHANGED <<heap, notJson>>

NextJson == Alloc \/ AppendItem \/ SetItem \/ CallToJsonable

SpecJson == InitJson /\ [][NextJson]_vars

(* ============================== claims ================================ *)
RECURSIVE IsSubsequence(_, _)
\* s is obtained from t by deleting entries
IsSubsequence(s, t) ==
  IF Len(s) = 0 THEN TRUE
  ELSE IF Len(t) = 0 THEN FALSE
  ELSE IF Head(s) = Head(t) THEN IsSubsequence(Tail(s), Tail(t))
  ELSE IsSubsequence(s, Tail(t))

NeutralFilters ==
  /\ filters.min_duration = Zero
  /\ filters.max_duration = None
  /\ filters.keywords = <<>>

\* C1: every entry of filter_videos' result has a duration > min_duration
\* when min_duration > 0, a duration <= max_duration when max_duration is
\* set (0 included), and a lower-cased title containing every lower-cased
\* keyword.
C1_ResultSatisfiesFilters ==
  fpc # "start" =>
    \A i \in 1..Len(result) :
      /\ (FloatGT(filters.min_duration, Zero) =>
            FloatGT(EntryDuration(result[i]), filters.min_duration))
      /\ (filters.max_duration # None =>
            FloatLE(EntryDuration(result[i]), filters.max_duration))
      /\ \A k \in 1..Len(filters.keywords) :
            Contains(Lower(result[i].title), Lower(filters.keywords[k]))

\* C2: an entry whose duration text is "NA" or not a number never makes
\* cmd_download raise; it is listed with the duration 0.
C2_ParseFailureNeverSurfaces ==
  /\ dpc # "raised"
  /\ \A i \in 1..Len(printed) :
       (dvideos[i].duration = NA \/ ~ParseFloat(dvideos[i].duration).ok)
          => printed[i] = <<"0","0",":","0","0">>

\* C7: cmd_download returns 1 exactly when no listed video matches the
\* filters and 0 otherwise, whatever -n is, and a return of 1 comes without
\* download_videos having run.
C7_ExitCodeIffNoMatch ==
  dpc \in {"returned", "raised"} =>
    /\ dpc = "returned"
    /\ dexit \in {0, 1}
    /\ (dexit = 1 <=> \A i \in 1..Len(listing) : ~Keeps(listing[i], CmdFilters(args)))
    /\ (dexit = 1 => ~destdir /\ downloaded = <<>>)

\* C8: with min_duration 0, no max_duration and no keywords filter_videos
\* returns its input, entries with duration "NA" or 0 included; in general
\* the result is a subsequence of the input in the input's order, and the
\* input list is not modified.
C8_NeutralFilterIsIdentity ==
  /\ [](fpc # "start" =>
          /\ IsSubsequence(result, videos)
          /\ (NeutralFilters => result = videos))
  /\ [][videos' = videos]_vars

C8_Witness ==
  /\ fpc = "filtered"
  /\ NeutralFilters
  /\ Len(videos) >= 2
  /\ \E i \in 1..Len(videos) : videos[i].duration = NA
  /\ \E i \in 1..Len(videos) : videos[i].duration = <<"0">>
  /\ result = videos

\* C9: filtering a filtered list again with the same filters changes nothing.
C9_FilterIdempotent ==
  fpc = "refiltered" => again = result

C9_Witness ==
  /\ fpc = "refiltered"
  /\ Len(result) >= 1
  /\ Len(result) < Len(videos)
  /\ again = result

\* C10: for a duration d >= 0, format_duration(d) is two or more digits of
\* minutes, a colon and exactly two digits of seconds, the minutes reading
\* floor(d) div 60 (not wrapped) and the seconds floor(d) mod 60, the
\* fraction of d dropped.
C10_FormatDurationShape ==
  mpc = "done" =>
    LET n == Len(formatted)
        minutes == SubSeq(formatted, 1, n - 3)
        secs == SubSeq(formatted, n - 1, n)
    IN /\ n >= 5
       /\ formatted[n - 2] = ":"
       /\ AllDigits(minutes) /\ Len(minutes) >= 2
       /\ AllDigits(secs) /\ Len(secs) = 2
       /\ ParseDigits(minutes) = seconds.whole \div 60
       /\ ParseDigits(secs) = seconds.whole % 60

C10_Witness ==
  /\ mpc = "done"
  /\ seconds.whole \div 60 >= 100
  /\ seconds.tenths = 9
  /\ Len(formatted) = 6

\* the with block of cmd_transcribe has been left
AfterSpinnerExit ==
  tpc \in {"write_text", "write_json", "return0", "json_raised", "tr_raised"}

\* C4: when Spinner.__exit__ has returned the spinner thread has ended and
\* the last thing it wrote is the erasing output; nothing is written by it
\* afterwards; and once the stop flag is set the thread ends.
C4_SpinnerJoinedBeforeReturn ==
  /\ [](AfterSpinnerExit => spc = "dead" /\ spinnerLast = "erase")
  /\ [][AfterSpinnerExit => spinnerLast' = spinnerLast /\ frame' = frame]_vars
  /\ (stop_event ~> spc = "dead")

C4_Witness ==
  /\ tpc = "write_text"
  /\ stop_event
  /\ spc = "dead"
  /\ spinnerLast = "erase"
  /\ frame >= 2

\* C5: a local source that does not exist or does not end in ".wav" (any
\* case) makes cmd_transcribe return 1 with the file system as it was: no
\* directory made, no file copied or written, no transcription.
C5_BadLocalSourceRejected ==
  (/\ tpc # "idle"
   /\ ~(StartsWith(source, HttpPrefix) \/ StartsWith(source, HttpsPrefix))
   /\ (source \notin files0 \/ ~EndsWith(Lower(source), DotWav)))
  => /\ files = files0
     /\ dirs = dirs0
     /\ ~transcribed
     /\ tpc \in {"start", "return1"}
     /\ (tpc = "return1" => texit = 1)

C5_Witness ==
  /\ tpc = "return1"
  /\ texit = 1
  /\ source = <<"n",".","m","p","3">>
  /\ source \in files0
  /\ files = files0 /\ dirs = dirs0

\* C6: without ffmpeg the transcribe subcommand ends with exit code 1
\* before transcribing or writing a transcript, for a URL and for a valid
\* local WAV file alike.
C6_NoFfmpegIsFatal ==
  (tpc # "idle" /\ ~ffmpeg) =>
    /\ ~transcribed
    /\ \A f \in files \ files0 : ~EndsWith(f, DotTxt) /\ ~EndsWith(f, DotJson)
    /\ (tpc \in {"sysexit", "return1", "return0", "dl_raised", "tr_raised",
                  "json_raised"} => tpc \in {"sysexit", "return1"} /\ texit = 1)

RECURSIVE JsonSafe(_)
\* null, boolean, number, string, array of JSON-safe values or string-keyed
\* object of JSON-safe values
JsonSafe(v) ==
  /\ v.t \in {"null", "bool", "num", "str", "arr", "obj"}
  /\ (v.t \notin {"arr", "obj"} => v.items = <<>>)
  /\ \A i \in 1..Len(v.items) :
       v.items[i].key \in STRING /\ JsonSafe(v.items[i].val)

\* C3: to_jsonable returns for every input, self-referential containers and
\* objects included, and what it returns is a JSON-safe tree.
C3_ToJsonableNeverRaises ==
  jpc = "done" => ~jout.raised /\ JsonSafe(jout.val)

====
